---- MODULE Spec2Model ----
(***************************************************************************)
(* Invoice text extraction: tracker/utils/pdf_text_extractor.py            *)
(* (extract_text_from_pdf, parse_invoice_data, extract_from_bytes) and the *)
(* item loop of tracker/utils/invoice_ocr.py (InvoiceDataExtractor).       *)
(*                                                                         *)
(* Python str values are TLA+ strings; a character is a string of length   *)
(* one.  Python None is the string NoneVal, which no str value of the      *)
(* model's alphabet can equal.  Python list indices are 0-based in the     *)
(* code and kept 0-based in the variable idx; sequences here are 1-based.  *)
(***************************************************************************)
EXTENDS Integers, Sequences, FiniteSets, TLC

\* ------------------------------------------------------------------------
\* Characters and str methods
\* ------------------------------------------------------------------------

NoneVal == "<None>"

At(s, i) == SubSeq(s, i, i)

\* The value v under a name: v is evaluated once, then F sees the value
\* (a local variable of the code, an argument of a call).
Let(v, F(_)) == CHOOSE r \in {F(x) : x \in {v}} : TRUE

CharsOf(s) == {At(s, i) : i \in 1..Len(s)}

UpperLetters == "ABCDEFGHIJKLMNOPQRSTUVWXYZ"

LowerLetters == "abcdefghijklmnopqrstuvwxyz"

DigitChars == CharsOf("0123456789")

UpperSet == CharsOf(UpperLetters)

LowerSet == CharsOf(LowerLetters)

\* \s of the re module and the characters str.strip()/str.split() drop
\* (ASCII part: space, tab, newline, carriage return, form feed).
WhiteSpace == {" ", "\t", "\n", "\r", "\f"}

\* \w of the re module (ASCII part)
WordChars == UpperSet \cup LowerSet \cup DigitChars \cup {"_"}

LowerMap == [c \in UpperSet |-> At(LowerLetters, CHOOSE i \in 1..26 : At(UpperLetters, i) = c)]

UpperMap == [c \in LowerSet |-> At(UpperLetters, CHOOSE i \in 1..26 : At(LowerLetters, i) = c)]

LowerChar(c) == IF c \in UpperSet THEN LowerMap[c] ELSE c

SwapCase(c) == IF c \in UpperSet THEN LowerMap[c] ELSE IF c \in LowerSet THEN UpperMap[c] ELSE c

RECURSIVE Lower(_)
\* str.lower(), by halves
Lower(s) ==
    Let(s, LAMBDA str :
        IF Len(str) = 0 THEN ""
        ELSE IF Len(str) = 1 THEN LowerChar(str)
        ELSE LET m == Len(str) \div 2
             IN  Lower(SubSeq(str, 1, m)) \o Lower(SubSeq(str, m + 1, Len(str))))

\* str.endswith(suffix)
EndsWith(s, suffix) ==
    Let(s, LAMBDA str :
        /\ Len(suffix) <= Len(str)
        /\ SubSeq(str, Len(str) - Len(suffix) + 1, Len(str)) = suffix)

\* str.strip()
Strip(s) ==
    Let(s, LAMBDA str :
        Let({i \in 1..Len(str) : At(str, i) \notin WhiteSpace}, LAMBDA keep :
            IF keep = {} THEN ""
            ELSE LET lo == CHOOSE i \in keep : \A j \in keep : i <= j
                     hi == CHOOSE i \in keep : \A j \in keep : j <= i
                 IN  SubSeq(str, lo, hi)))

\* str.split(sep) for a one-character separator: the pieces between the
\* occurrences of sep, empty pieces included.
Split(s, sep) ==
    Let(s, LAMBDA str :
        Let({i \in 1..Len(str) : At(str, i) = sep}, LAMBDA cut :
            LET n == Cardinality(cut)
                pos(k) == IF k = 0 THEN 0
                          ELSE IF k = n + 1 THEN Len(str) + 1
                          ELSE CHOOSE p \in cut : Cardinality({q \in cut : q < p}) = k - 1
            IN  [k \in 1..(n + 1) |-> SubSeq(str, pos(k - 1) + 1, pos(k) - 1)] \o <<>>))

RECURSIVE CollapseRange(_, _, _)
\* Characters lo..hi of a stripped string with every whitespace run
\* replaced by one space (by halves).
CollapseRange(s, lo, hi) ==
    Let(<<s, lo, hi>>, LAMBDA a :
        LET str == a[1]
            l == a[2]
            h == a[3]
        IN  IF l > h THEN ""
            ELSE IF l = h
                 THEN (IF At(str, l) \notin WhiteSpace THEN At(str, l)
                       ELSE IF l > 1 /\ At(str, l - 1) \in WhiteSpace THEN "" ELSE " ")
            ELSE LET m == (l + h) \div 2
                 IN  CollapseRange(str, l, m) \o CollapseRange(str, m + 1, h))

\* ' '.join(s.split()): whitespace runs become one space, none at the ends.
Collapse(s) == Let(Strip(s), LAMBDA t : CollapseRange(t, 1, Len(t)))

RECURSIVE DropCommas(_)
\* str.replace(',', ''), by halves
DropCommas(s) ==
    Let(s, LAMBDA str :
        IF Len(str) = 0 THEN ""
        ELSE IF Len(str) = 1 THEN (IF str = "," THEN "" ELSE str)
        ELSE LET m == Len(str) \div 2
             IN  DropCommas(SubSeq(str, 1, m)) \o DropCommas(SubSeq(str, m + 1, Len(str))))

\* str.isupper(): at least one cased character and no lowercase one.
IsUpper(s) ==
    Let(s, LAMBDA str :
        /\ \E i \in 1..Len(str) : At(str, i) \in UpperSet
        /\ \A i \in 1..Len(str) : At(str, i) \notin LowerSet)

\* ------------------------------------------------------------------------
\* The re module: a backtracking matcher over pattern syntax trees.
\* A pattern is a sequence of nodes; alternatives are tried left to right,
\* greedy repetitions longest first, lazy ones shortest first, so the first
\* successful path is the match re.search reports.
\* ------------------------------------------------------------------------

\* 'abc'
Lit(str) == [t |-> "lit", s |-> str]

\* [...]
Set(chars) == [t |-> "set", cs |-> chars, neg |-> FALSE]

\* [^...]
NSet(chars) == [t |-> "set", cs |-> chars, neg |-> TRUE]

\* x{min,max}; max = -1 is unbounded
Rep(body, min, max) == [t |-> "rep", body |-> body, min |-> min, max |-> max, greedy |-> TRUE]

\* x{min,max}?
RepLazy(body, min, max) == [t |-> "rep", body |-> body, min |-> min, max |-> max, greedy |-> FALSE]

\* x*, x+, x?
Star(body) == Rep(body, 0, -1)

Plus(body) == Rep(body, 1, -1)

Opt(body) == Rep(body, 0, 1)

\* (?:a|b|...)
Alt(alts) == [t |-> "alt", alts |-> alts]

\* ( and ) of the capturing group 1
Open == [t |-> "open"]

Close == [t |-> "close"]

\* (?!x)
NotAhead(body) == [t |-> "nla", body |-> body]

\* $ and ^ (multi: re.MULTILINE), \b
Eol(multi) == [t |-> "eol", multi |-> multi]

Bol(multi) == [t |-> "bol", multi |-> multi]

WordB == [t |-> "wb"]

\* (?:lit1|lit2|...)
Words(strs) == Alt([j \in 1..Len(strs) |-> <<Lit(strs[j])>>])

NoMatch == [ok |-> FALSE, s |-> 0, e |-> 0, gs |-> 0, ge |-> 0]

SetHas(node, c, ci) ==
    LET in == c \in node.cs \/ (ci /\ SwapCase(c) \in node.cs)
    IN  IF node.neg THEN ~in ELSE in

LitAt(str, s, i, ci) ==
    /\ i + Len(str) - 1 <= Len(s)
    /\ \A j \in 1..Len(str) :
          IF ci THEN LowerChar(At(s, i + j - 1)) = LowerChar(At(str, j))
          ELSE At(s, i + j - 1) = At(str, j)

IsWordAt(s, i) == i >= 1 /\ i <= Len(s) /\ At(s, i) \in WordChars

RECURSIVE Match(_, _, _, _, _, _)
\* Match the node sequence k against s from position i; gs/ge are the
\* bounds of group 1 so far; ci is re.I.  e is one past the last character
\* of the match.  (k, s, i, gs, ge, ci are the values of the arguments.)
Match(nodes, str, at, gs0, ge0, ci0) ==
    Let(<<nodes, str, at, gs0, ge0, ci0>>, LAMBDA a :
    LET k == a[1]
        s == a[2]
        i == a[3]
        gs == a[4]
        ge == a[5]
        ci == a[6]
    IN
    IF k = <<>> THEN [ok |-> TRUE, s |-> i, e |-> i, gs |-> gs, ge |-> ge]
    ELSE
    LET h == Head(k)
        rest == Tail(k)
    IN  CASE h.t = "lit" ->
                IF LitAt(h.s, s, i, ci) THEN Match(rest, s, i + Len(h.s), gs, ge, ci) ELSE NoMatch
          [] h.t = "set" ->
                IF i <= Len(s) /\ SetHas(h, At(s, i), ci)
                THEN Match(rest, s, i + 1, gs, ge, ci) ELSE NoMatch
          [] h.t = "alt" ->
                LET RECURSIVE try(_)
                    try(j) == IF j > Len(h.alts) THEN NoMatch
                              ELSE Let(Match(h.alts[j] \o rest, s, i, gs, ge, ci),
                                       LAMBDA r : IF r.ok THEN r ELSE try(j + 1))
                IN  try(1)
          [] h.t = "rep" /\ Len(h.body) = 1 /\ h.body[1].t = "set" ->
                \* a repeated character class: the counts are tried from the
                \* longest run down (greedy) or from the minimum up (lazy)
                LET avail == Len(s) - i + 1
                    hi == IF h.max < 0 \/ h.max > avail THEN avail ELSE h.max
                    in(j) == SetHas(h.body[1], At(s, i + j - 1), ci)
                IN  Let(CHOOSE c \in 0..hi : /\ c = hi \/ ~in(c + 1)
                                            /\ \A j \in 1..c : in(j),
                        LAMBDA run :
                        LET n == run - h.min
                            cnt(d) == IF h.greedy THEN run - d ELSE h.min + d
                            try(d) == Match(rest, s, i + cnt(d), gs, ge, ci)
                        IN  IF n < 0 THEN NoMatch
                            ELSE Let(try(0), LAMBDA first :
                                 IF first.ok THEN first
                                 ELSE Let(CHOOSE x \in 1..(n + 1) :
                                              /\ x = n + 1 \/ try(x).ok
                                              /\ \A e \in 1..(x - 1) : ~try(e).ok,
                                          LAMBDA d : IF d = n + 1 THEN NoMatch ELSE try(d))))
          [] h.t = "rep" ->
                LET more == IF h.max = 0 THEN NoMatch
                            ELSE Match(h.body
                                       \o <<[h EXCEPT !.min = IF h.min > 0 THEN h.min - 1 ELSE 0,
                                                      !.max = IF h.max > 0 THEN h.max - 1 ELSE h.max]>>
                                       \o rest, s, i, gs, ge, ci)
                    stop == IF h.min > 0 THEN NoMatch ELSE Match(rest, s, i, gs, ge, ci)
                IN  IF h.greedy
                    THEN Let(more, LAMBDA m : IF m.ok THEN m ELSE stop)
                    ELSE Let(stop, LAMBDA m : IF m.ok THEN m ELSE more)
          [] h.t = "open" -> Match(rest, s, i, i, ge, ci)
          [] h.t = "close" -> Match(rest, s, i, gs, i, ci)
          [] h.t = "nla" ->
                IF Match(h.body, s, i, gs, ge, ci).ok THEN NoMatch
                ELSE Match(rest, s, i, gs, ge, ci)
          [] h.t = "eol" ->
                IF \/ i = Len(s) + 1
                   \/ i = Len(s) /\ At(s, i) = "\n"
                   \/ h.multi /\ i <= Len(s) /\ At(s, i) = "\n"
                THEN Match(rest, s, i, gs, ge, ci) ELSE NoMatch
          [] h.t = "bol" ->
                IF i = 1 \/ (h.multi /\ i > 1 /\ At(s, i - 1) = "\n")
                THEN Match(rest, s, i, gs, ge, ci) ELSE NoMatch
          [] h.t = "wb" ->
                IF IsWordAt(s, i - 1) # IsWordAt(s, i)
                THEN Match(rest, s, i, gs, ge, ci) ELSE NoMatch)

\* re.search(pat, s[from-1:]) with positions of s: the leftmost start
\* from which the pattern matches.
SearchFrom(pat, s, from, ci) ==
    Let(<<pat, s, from>>, LAMBDA a :
        Let({i \in a[3]..(Len(a[2]) + 1) : Match(a[1], a[2], i, 0, 0, ci).ok}, LAMBDA hits :
            IF hits = {} THEN NoMatch
            ELSE Let(CHOOSE x \in hits : \A y \in hits : x <= y, LAMBDA i :
                     [Match(a[1], a[2], i, 0, 0, ci) EXCEPT !.s = i])))

\* re.search(pat, s)
Search(pat, s, ci) == SearchFrom(pat, s, 1, ci)

\* bool(re.search(pat, s))
Found(pat, s, ci) ==
    Let(<<pat, s>>, LAMBDA a : \E i \in 1..(Len(a[2]) + 1) : Match(a[1], a[2], i, 0, 0, ci).ok)

\* re.match(pat, s)
MatchStart(pat, s, ci) == Match(pat, s, 1, 0, 0, ci)

RECURSIVE FindAllFrom(_, _, _, _)
FindAllFrom(pat, s, from, ci) ==
    Let(<<pat, s, from>>, LAMBDA a :
        Let(SearchFrom(a[1], a[2], a[3], ci), LAMBDA m :
            IF ~m.ok THEN <<>>
            ELSE <<SubSeq(a[2], m.s, m.e - 1)>>
                 \o FindAllFrom(a[1], a[2], IF m.e > m.s THEN m.e ELSE m.e + 1, ci)))

\* re.findall(pat, s) for a pattern without groups
FindAll(pat, s, ci) == FindAllFrom(pat, s, 1, ci)

RECURSIVE SubFrom(_, _, _, _, _)
SubFrom(pat, repl, s, from, ci) ==
    Let(<<pat, s, from>>, LAMBDA a :
        Let(SearchFrom(a[1], a[2], a[3], ci), LAMBDA m :
            IF ~m.ok THEN SubSeq(a[2], a[3], Len(a[2]))
            ELSE SubSeq(a[2], a[3], m.s - 1) \o repl
                 \o (IF m.e > m.s THEN SubFrom(a[1], repl, a[2], m.e, ci)
                     ELSE IF m.e > Len(a[2]) THEN ""
                     ELSE At(a[2], m.e) \o SubFrom(a[1], repl, a[2], m.e + 1, ci))))

\* re.sub(pat, repl, s)
Sub(pat, repl, s, ci) == SubFrom(pat, repl, s, 1, ci)

\* ------------------------------------------------------------------------
\* Numbers: Decimal(str), int(float(str)), int(str)
\* ------------------------------------------------------------------------

DigitValue == [c \in DigitChars |-> CHOOSE n \in 0..9 : At("0123456789", n + 1) = c]

\* Values at or above IntCap are kept as IntCap: the code compares these
\* integers with 0 and 1000 only, and stores one only when it is <= 1000
\* (Python integers are unbounded, the checker's are 32-bit).
IntCap == 1000000

RECURSIVE IntOfDigitsFrom(_, _, _)
IntOfDigitsFrom(s, i, acc) ==
    Let(<<s, i, acc>>, LAMBDA a :
        IF a[2] > Len(a[1]) THEN a[3]
        ELSE Let(a[3] * 10 + DigitValue[At(a[1], a[2])], LAMBDA v :
                 IntOfDigitsFrom(a[1], a[2] + 1, IF v >= IntCap THEN IntCap ELSE v)))

IntOfDigits(s) == IntOfDigitsFrom(s, 1, 0)

IsDigits(s) == Let(s, LAMBDA str : \A i \in 1..Len(str) : At(str, i) \in DigitChars)

\* digits '.'? digits with at least one digit: what float() and Decimal()
\* accept among the strings made of digits and points.  ok is FALSE where
\* Python raises ValueError / InvalidOperation.
SplitNumber(s) ==
    Let(s, LAMBDA str :
        LET dots == {i \in 1..Len(str) : At(str, i) = "."}
            dot == IF dots = {} THEN Len(str) + 1 ELSE CHOOSE i \in dots : TRUE
            ip == SubSeq(str, 1, dot - 1)
            fp == SubSeq(str, dot + 1, Len(str))
        IN  [ok |-> /\ Cardinality(dots) <= 1
                    /\ IsDigits(ip) /\ IsDigits(fp)
                    /\ Len(ip) + Len(fp) >= 1,
             ip |-> ip, fp |-> fp])

\* int(float(s)) for an unsigned numeral s: the integer part (exact while
\* s has fewer than 16 significant digits).  ok is FALSE where float()
\* raises ValueError.
IntOfFloat(s) ==
    Let(SplitNumber(s), LAMBDA n :
        IF n.ok THEN [ok |-> TRUE, v |-> IntOfDigits(n.ip)] ELSE [ok |-> FALSE, v |-> 0])

\* int(s) for a string of digits and points: ValueError unless all digits.
IntOfStr(s) ==
    Let(s, LAMBDA str :
        IF Len(str) >= 1 /\ IsDigits(str) THEN [ok |-> TRUE, v |-> IntOfDigits(str)]
        ELSE [ok |-> FALSE, v |-> 0])

RECURSIVE DropLeadingZeros(_)
DropLeadingZeros(s) ==
    Let(s, LAMBDA str :
        IF Len(str) >= 2 /\ At(str, 1) = "0" THEN DropLeadingZeros(SubSeq(str, 2, Len(str)))
        ELSE str)

\* The exception Decimal(s) raises, in place of a value.
InvalidOperation == "<InvalidOperation>"

\* try: v  except Exception: None
ExceptNone(v) == Let(v, LAMBDA x : IF x = InvalidOperation THEN NoneVal ELSE x)

\* Decimal(s), written as str() prints it: sign, integer digits without
\* leading zeros, and the fraction digits exactly as given (the exponent
\* is minus their number).  A malformed string raises InvalidOperation.
DecimalOf(s) ==
    Let(s, LAMBDA str :
        LET neg == Len(str) >= 1 /\ At(str, 1) = "-"
            body == IF Len(str) >= 1 /\ At(str, 1) \in {"-", "+"}
                    THEN SubSeq(str, 2, Len(str)) ELSE str
        IN  Let(SplitNumber(body), LAMBDA n :
                IF ~n.ok THEN InvalidOperation
                ELSE (IF neg THEN "-" ELSE "")
                     \o DropLeadingZeros(IF n.ip = "" THEN "0" ELSE n.ip)
                     \o (IF n.fp = "" THEN "" ELSE "." \o n.fp)))

\* [^\d\.\,\-]
NotAmountChar == <<NSet(DigitChars \cup {".", ",", "-"})>>

\* to_decimal without its try/except: the exception reaches the caller.
to_decimalUncaught(s) ==
    Let(s, LAMBDA str :
        IF str = NoneVal \/ str = "" THEN NoneVal
        ELSE DecimalOf(DropCommas(Strip(Sub(NotAmountChar, "", str, FALSE)))))

\* to_decimal(s): None for None or '', else Decimal of the cleaned string,
\* None when Decimal raises.
to_decimal(s) ==
    Let(s, LAMBDA str :
        IF str = NoneVal \/ str = "" THEN NoneVal
        ELSE ExceptNone(DecimalOf(DropCommas(Strip(Sub(NotAmountChar, "", str, FALSE))))))

\* _parse_amount(amount_str): Decimal of the string without commas, None
\* when it is empty or Decimal raises.
parse_amount(amount_str) ==
    Let(Strip(DropCommas(amount_str)), LAMBDA clean :
        IF clean = "" THEN NoneVal ELSE ExceptNone(DecimalOf(clean)))

\* ------------------------------------------------------------------------
\* parse_invoice_data: the header fields
\* ------------------------------------------------------------------------

\* \s* and [\s:\-]* , [\s:\-]+
Ws0 == Star(<<Set(WhiteSpace)>>)

Sep0 == Star(<<Set(WhiteSpace \cup {":", "-"})>>)

Sep1 == Plus(<<Set(WhiteSpace \cup {":", "-"})>>)

\* (?:\n|$) and (?:\n|$|[,;]) and (?:\n|$|\s) under re.MULTILINE
EndOfLine == Alt(<< <<Lit("\n")>>, <<Eol(TRUE)>> >>)

EndOfCode == Alt(<< <<Lit("\n")>>, <<Eol(TRUE)>>, <<Set({",", ";"})>> >>)

EndOfToken == Alt(<< <<Lit("\n")>>, <<Eol(TRUE)>>, <<Set(WhiteSpace)>> >>)

\* [A-Z0-9\-\/]
CodeChar == Set(UpperSet \cup DigitChars \cup {"-", "/"})

\* find(pattern): group 1 of the first match, stripped, whitespace
\* collapsed; None without a match or when nothing is left.
find(pattern, normalized_text) ==
    Let(Search(pattern, normalized_text, TRUE), LAMBDA m :
        IF ~m.ok THEN NoneVal
        ELSE Let(Collapse(SubSeq(normalized_text, m.gs, m.ge - 1)), LAMBDA result :
                 IF result = "" THEN NoneVal ELSE result))

\* a or b
OrElse(a, b) == Let(a, LAMBDA x : IF x # NoneVal /\ x # "" THEN x ELSE b)

\* (?:Code\s*(?:No|Number)\.?|Code\s*#)[\s:\-]*([A-Z0-9\-\/]+?)(?:\n|$|[,;])
CodeNoPattern ==
    <<Alt(<< <<Lit("Code"), Ws0, Words(<<"No", "Number">>), Opt(<<Lit(".")>>)>>,
             <<Lit("Code"), Ws0, Lit("#")>> >>),
      Sep0, Open, RepLazy(<<CodeChar>>, 1, -1), Close, EndOfCode>>

\* (?:Invoice\s*(?:Number|No\.?|#|Date)[\s:\-]*)?([A-Z]{0,3}\d{5,20})(?:\n|$|\s)
InvoiceNoPattern1 ==
    <<Opt(<<Lit("Invoice"), Ws0,
            Alt(<< <<Lit("Number")>>, <<Lit("No"), Opt(<<Lit(".")>>)>>, <<Lit("#")>>, <<Lit("Date")>> >>),
            Sep0>>),
      Open, Rep(<<Set(UpperSet)>>, 0, 3), Rep(<<Set(DigitChars)>>, 5, 20), Close, EndOfToken>>

\* (?:PI|P\.?I\.?|Invoice|INV)[\s:\-]*([A-Z0-9\-\/]+?)(?:\n|$)
InvoiceNoPattern2 ==
    <<Alt(<< <<Lit("PI")>>,
             <<Lit("P"), Opt(<<Lit(".")>>), Lit("I"), Opt(<<Lit(".")>>)>>,
             <<Lit("Invoice")>>, <<Lit("INV")>> >>),
      Sep0, Open, RepLazy(<<CodeChar>>, 1, -1), Close, EndOfLine>>

\* (?:Date|Invoice\s*Date|Dated)[\s:\-]*([0-3]?\d[\s/\-][01]?\d[\s/\-]\d{2,4})
DatePattern ==
    <<Alt(<< <<Lit("Date")>>, <<Lit("Invoice"), Ws0, Lit("Date")>>, <<Lit("Dated")>> >>),
      Sep0, Open,
      Opt(<<Set({"0", "1", "2", "3"})>>), Set(DigitChars), Set(WhiteSpace \cup {"/", "-"}),
      Opt(<<Set({"0", "1"})>>), Set(DigitChars), Set(WhiteSpace \cup {"/", "-"}),
      Rep(<<Set(DigitChars)>>, 2, 4), Close>>

\* (?:Customer\s*Name|Customer|Bill\s*To|Buyer|Name|TO)[\s:\-]+([A-Z][^\n\r]{3,150})(?:\n|$)
CustomerNamePattern ==
    <<Alt(<< <<Lit("Customer"), Ws0, Lit("Name")>>, <<Lit("Customer")>>,
             <<Lit("Bill"), Ws0, Lit("To")>>, <<Lit("Buyer")>>, <<Lit("Name")>>, <<Lit("TO")>> >>),
      Sep1, Open, Set(UpperSet), Rep(<<NSet({"\n", "\r"})>>, 3, 150), Close, EndOfLine>>

\* (?:Address|Addr\.|ADD)[\s:\-]+((?:[^\n]{5,100}(?:\n(?!\w+[\s:\-]))?)+)
AddressPattern ==
    <<Words(<<"Address", "Addr.", "ADD">>), Sep1, Open,
      Plus(<<Rep(<<NSet({"\n"})>>, 5, 100),
             Opt(<<Lit("\n"),
                   NotAhead(<<Plus(<<Set(WordChars)>>), Set(WhiteSpace \cup {":", "-"})>>)>>)>>),
      Close>>

\* (?:Tel|Telephone|Phone|Mobile|Contact\s*(?:Number|Tel)|Fax)[\s:\-]*(\+?[0-9\s\-\(\)\.]{7,25})
PhonePattern ==
    <<Alt(<< <<Lit("Tel")>>, <<Lit("Telephone")>>, <<Lit("Phone")>>, <<Lit("Mobile")>>,
             <<Lit("Contact"), Ws0, Words(<<"Number", "Tel">>)>>, <<Lit("Fax")>> >>),
      Sep0, Open, Opt(<<Lit("+")>>),
      Rep(<<Set(DigitChars \cup WhiteSpace \cup {"-", "(", ")", "."})>>, 7, 25), Close>>

\* (?:Email|E-mail|Mail)[\s:\-]*([^\s\n\r:@]+@[^\s\n\r:]+)
EmailPattern ==
    <<Words(<<"Email", "E-mail", "Mail">>), Sep0, Open,
      Plus(<<NSet(WhiteSpace \cup {":", "@"})>>), Lit("@"),
      Plus(<<NSet(WhiteSpace \cup {":"})>>), Close>>

\* (?:Reference|Ref\.?|Order\s*(?:Number|Ref)|FOR)[\s:\-]*([A-Z0-9\s\-\/]{3,50})
ReferencePattern ==
    <<Alt(<< <<Lit("Reference")>>, <<Lit("Ref"), Opt(<<Lit(".")>>)>>,
             <<Lit("Order"), Ws0, Words(<<"Number", "Ref">>)>>, <<Lit("FOR")>> >>),
      Sep0, Open,
      Rep(<<Set(UpperSet \cup DigitChars \cup WhiteSpace \cup {"-", "/"})>>, 3, 50), Close>>

\* ([0-9\,]+\.?\d{0,2})
AmountGroup ==
    <<Open, Plus(<<Set(DigitChars \cup {","})>>), Opt(<<Lit(".")>>),
      Rep(<<Set(DigitChars)>>, 0, 2), Close>>

\* (?:Sub\s*Total|Subtotal|Net\s*(?:Value|Amount)|Net)
SubtotalLabel ==
    Alt(<< <<Lit("Sub"), Ws0, Lit("Total")>>, <<Lit("Subtotal")>>,
           <<Lit("Net"), Ws0, Words(<<"Value", "Amount">>)>>, <<Lit("Net")>> >>)

\* (?:VAT|Tax|GST|Sales\s*Tax|Vat\s*@)
TaxLabel ==
    Alt(<< <<Lit("VAT")>>, <<Lit("Tax")>>, <<Lit("GST")>>,
           <<Lit("Sales"), Ws0, Lit("Tax")>>, <<Lit("Vat"), Ws0, Lit("@")>> >>)

\* (?:Grand\s*Total|Total\s*Amount|Total(?:\s|:)|Amount\s*Due)
TotalLabel ==
    Alt(<< <<Lit("Grand"), Ws0, Lit("Total")>>, <<Lit("Total"), Ws0, Lit("Amount")>>,
           <<Lit("Total"), Set(WhiteSpace \cup {":"})>>, <<Lit("Amount"), Ws0, Lit("Due")>> >>)

\* extract_amount(label_pattern): the label, an optional currency code,
\* the amount; then the label and the amount alone.
extract_amount(label, normalized_text) ==
    LET withCurrency == <<label, Sep0, Opt(<<Words(<<"TSH", "TZS", "UGX", "USD">>)>>), Ws0>> \o AmountGroup
        plain == <<label, Sep0>> \o AmountGroup
    IN  OrElse(find(withCurrency, normalized_text), find(plain, normalized_text))

\* caps_lines: the stripped lines that are non-empty, upper-case and
\* longer than 5 characters; the first is the customer-name fallback.
CapsLineFallback(normalized_text) ==
    Let(Split(normalized_text, "\n"), LAMBDA ls :
        Let({k \in 1..Len(ls) : /\ Strip(ls[k]) # ""
                                /\ IsUpper(Strip(ls[k]))
                                /\ Len(Strip(ls[k])) > 5}, LAMBDA caps :
            IF caps = {} THEN NoneVal
            ELSE Strip(ls[CHOOSE k \in caps : \A j \in caps : k <= j])))

\* The eleven header entries of the returned dict for a text that is not
\* blank (normalized_text = text.strip()).
HeaderFields(normalized_text) ==
    Let(normalized_text, LAMBDA t :
    Let(find(CodeNoPattern, t), LAMBDA code_no :
    Let(find(CustomerNamePattern, t), LAMBDA labelled :
        [invoice_no |-> OrElse(find(InvoiceNoPattern1, t),
                               OrElse(find(InvoiceNoPattern2, t), code_no)),
         code_no |-> code_no,
         date |-> find(DatePattern, t),
         customer_name |-> IF labelled # NoneVal THEN labelled ELSE CapsLineFallback(t),
         address |-> find(AddressPattern, t),
         phone |-> find(PhonePattern, t),
         email |-> find(EmailPattern, t),
         reference |-> find(ReferencePattern, t),
         subtotal |-> to_decimal(extract_amount(SubtotalLabel, t)),
         tax |-> to_decimal(extract_amount(TaxLabel, t)),
         total |-> to_decimal(extract_amount(TotalLabel, t))])))

\* The early return with empty strings where the code has None.
EmptyFieldsBlankStrings ==
    [invoice_no |-> "", code_no |-> "", date |-> "",
     customer_name |-> "", address |-> "", phone |-> "",
     email |-> "", reference |-> "", subtotal |-> NoneVal,
     tax |-> NoneVal, total |-> NoneVal]

\* The dict returned for empty or whitespace-only text.
EmptyFields ==
    [invoice_no |-> NoneVal, code_no |-> NoneVal, date |-> NoneVal,
     customer_name |-> NoneVal, address |-> NoneVal, phone |-> NoneVal,
     email |-> NoneVal, reference |-> NoneVal, subtotal |-> NoneVal,
     tax |-> NoneVal, total |-> NoneVal]

\* not text or not text.strip()
IsBlankText(t) == t = "" \/ Strip(t) = ""

\* ------------------------------------------------------------------------
\* parse_invoice_data: the line items
\* ------------------------------------------------------------------------

\* (?:Item|Description|Qty|Quantity|Unit|Price|Amount|Value|Sr\.|S\.N)
ItemHeaderPattern1 ==
    <<Words(<<"Item", "Description", "Qty", "Quantity", "Unit", "Price", "Amount", "Value", "Sr.", "S.N">>)>>

\* (?:Description|Qty|Quantity|Price|Amount|Value)
ItemHeaderPattern2 ==
    <<Words(<<"Description", "Qty", "Quantity", "Price", "Amount", "Value">>)>>

\* (?:Sub\s*Total|Total|Grand\s*Total|VAT|Tax|Payment|Amount\s*Due|Summary)
FooterPattern ==
    <<Alt(<< <<Lit("Sub"), Ws0, Lit("Total")>>, <<Lit("Total")>>,
             <<Lit("Grand"), Ws0, Lit("Total")>>, <<Lit("VAT")>>, <<Lit("Tax")>>,
             <<Lit("Payment")>>, <<Lit("Amount"), Ws0, Lit("Due")>>, <<Lit("Summary")>> >>)>>

\* [0-9\,]+\.?\d*
NumberPattern ==
    <<Plus(<<Set(DigitChars \cup {","})>>), Opt(<<Lit(".")>>), Star(<<Set(DigitChars)>>)>>

\* \s*[0-9\,]+\.?\d*\s*
SpacedNumberPattern == <<Ws0>> \o NumberPattern \o <<Ws0>>

\* ^\d+$
AllDigitsPattern == <<Bol(FALSE), Plus(<<Set(DigitChars)>>), Eol(FALSE)>>

\* The test of the item section header (both searches, re.I).
IsItemHeader(line) ==
    Found(ItemHeaderPattern1, line, TRUE) /\ Found(ItemHeaderPattern2, line, TRUE)

\* The search for a summary/footer keyword (re.I).
IsFooter(line) == Found(FooterPattern, line, TRUE)

\* numbers = re.findall(r'[0-9\,]+\.?\d*', line)
NumbersOf(line) == FindAll(NumberPattern, line, FALSE)

\* desc: the line with every number replaced by a space, stripped and
\* whitespace-collapsed.
DescOf(line) == Collapse(Strip(Sub(SpacedNumberPattern, " ", line, FALSE)))

\* Lower and upper limit of the quantity test 0 < qty_val < 1000.
QtyLow == 0

QtyHigh == 1000

\* The quantity test on the second-to-last number: int(float(.)) of it
\* without commas lies strictly between the limits; an exception fails it.
IsQty(number) ==
    Let(IntOfFloat(DropCommas(number)), LAMBDA q : q.ok /\ QtyLow < q.v /\ q.v < QtyHigh)

\* desc[:255]
DescLimit == 255

\* The description kept whole.
TruncateNothing(desc) == desc

Truncate(desc) ==
    Let(desc, LAMBDA d : SubSeq(d, 1, IF Len(d) < DescLimit THEN Len(d) ELSE DescLimit))

\* The conditions under which a line of the item section is appended.
IsItemLine(line) ==
    /\ Len(NumbersOf(line)) >= 1 /\ Len(line) > 5
    /\ Let(DescOf(line), LAMBDA desc :
           desc # "" /\ Len(desc) > 2 /\ ~MatchStart(AllDigitsPattern, desc, FALSE).ok)

\* The dict appended for an item line.
ItemOf(line) ==
    Let(NumbersOf(line), LAMBDA numbers :
        LET n == Len(numbers)
            qty == IF n >= 2 /\ IsQty(numbers[n - 1]) THEN numbers[n - 1] ELSE "1"
        IN  [description |-> Truncate(DescOf(line)),
             qty |-> IntOfFloat(DropCommas(qty)).v,
             value |-> to_decimal(numbers[n])])

\* ------------------------------------------------------------------------
\* InvoiceDataExtractor._extract_items
\* ------------------------------------------------------------------------

\* (?:\d{1,3}(?:,\d{3})*|\d+)(?:\.\d{1,2})?
amount_re ==
    <<Alt(<< <<Rep(<<Set(DigitChars)>>, 1, 3), Star(<<Lit(","), Rep(<<Set(DigitChars)>>, 3, 3)>>)>>,
             <<Plus(<<Set(DigitChars)>>)>> >>),
      Opt(<<Lit("."), Rep(<<Set(DigitChars)>>, 1, 2)>>)>>

\* The keywords of lines that are skipped as header/meta.
MetaKeywords == <<"customer", "date", "invoice", "total", "vat", "subtotal", "tel", "fax", "address">>

\* any(kw in low for kw in [...])
IsMetaLine(line) ==
    Let(Lower(line), LAMBDA low :
        \E k \in 1..Len(MetaKeywords) : Found(<<Lit(MetaKeywords[k])>>, low, FALSE))

\* bool(d) for a Decimal: zero is false.
DecimalTruthy(d) ==
    Let(d, LAMBDA v : v # NoneVal /\ \E i \in 1..Len(v) : At(v, i) \in (DigitChars \ {"0"}))

\* x or None for a Decimal
DecimalOrNone(d) == Let(d, LAMBDA v : IF DecimalTruthy(v) THEN v ELSE NoneVal)

\* Upper limit of the quantity test int(second_last) <= 1000.
OcrQtyHigh == 1000

\* The quantity test of the second-to-last amount: no decimal point and
\* int() of it at most the limit; int() raising fails it.
OcrIsQty(second_last) ==
    /\ \A i \in 1..Len(second_last) : At(second_last, i) # "."
    /\ IntOfStr(second_last).ok
    /\ IntOfStr(second_last).v <= OcrQtyHigh

\* \b<amount>\b\s*$  and  ^\d+\.?\s*
TrailingAmount(amount) == <<WordB, Lit(amount), WordB, Ws0, Eol(FALSE)>>

LeadingCode == <<Bol(FALSE), Plus(<<Set(DigitChars)>>), Opt(<<Lit(".")>>), Ws0>>

\* The description: the line without its trailing amount and leading
\* code, or the whole line when fewer than 3 characters are left.
OcrDescOf(line, last) ==
    Let(Strip(Sub(TrailingAmount(last), "", line, FALSE)), LAMBDA d1 :
        Let(Strip(Sub(LeadingCode, "", d1, FALSE)), LAMBDA d2 :
            IF d2 = "" \/ Len(d2) < 3 THEN Strip(line) ELSE d2))

\* The dict appended for a line with at least one amount.
OcrItemOf(line) ==
    Let(FindAll(amount_re, line, FALSE), LAMBDA amounts :
        LET n == Len(amounts)
        IN  Let(<<DecimalOrNone(parse_amount(amounts[n])), n >= 2 /\ OcrIsQty(amounts[n - 1])>>,
                LAMBDA a :
                LET total == a[1]
                    hasQty == a[2]
                    qty == IF hasQty THEN IntOfStr(amounts[n - 1]).v ELSE 0
                IN  Let(IF n >= 2 /\ ~hasQty THEN parse_amount(amounts[n - 1]) ELSE NoneVal,
                        LAMBDA unit_price :
                        [description |-> Truncate(OcrDescOf(line, amounts[n])),
                         quantity |-> IF hasQty /\ qty # 0 THEN qty ELSE 1,
                         unit |-> "NOS",
                         unit_price |-> IF DecimalTruthy(unit_price) THEN unit_price
                                        ELSE IF hasQty /\ qty = 1 THEN total ELSE NoneVal,
                         total |-> total])))

\* ------------------------------------------------------------------------
\* Inputs
\* ------------------------------------------------------------------------

\* sample_text: the text of the sample pro forma invoice, one source line per row.
sample_text ==
    "Superdoll Trailer Manufacture Co. (T) Ltd.\n" \o
    "P.O. Box 16541 DSM, Tel.+255-22-2860930-2863467, Fax +255-22-2865412/3, Email: stm@superdoll-tz.com,Tax ID No.100-199-157, VAT Reg. No.10-0085-15-E\n" \o
    "P.O. BOX 15950\n" \o
    "A01696\n" \o
    "25/10/2025\n" \o
    "PI-1765632\n" \o
    "BF GOODRICH TYRE\n" \o
    "LT265/65R17 116/113S TL\n" \o
    "ALL-TERRAIN T/A KO3 LRD\n" \o
    "RWL GO\n" \o
    "VALVE (1214 TR 414) FOR\n" \o
    "CAR TUBELESS TYRES\n" \o
    "WHEEL BALANCE ALLOYD\n" \o
    "RIMS\n" \o
    "WHEEL ALIGNMENT SMALL\n" \o
    "1\n" \o
    "2\n" \o
    "3\n" \o
    "4\n" \o
    "2132004135\n" \o
    "3373119002\n" \o
    "21004\n" \o
    "21019\n" \o
    "PCS\n" \o
    "PCS\n" \o
    "PCS\n" \o
    "UNT\n" \o
    "Sr\n" \o
    "No.\n" \o
    "Item Code Description \n" \o
    "Proforma Invoice\n" \o
    "Code No\n" \o
    "Customer Name STATEOIL TANZANIA LIMITED\n" \o
    "Address\n" \o
    "Tel Fax\n" \o
    "Del. Date\n" \o
    "PI No.\n" \o
    "Date\n" \o
    "Cust Ref\n" \o
    "Ref Date\n" \o
    "Authorised Signatory\n" \o
    "25/10/2025\n" \o
    "DAR ES SALAAM\n" \o
    "TANZANIA\n" \o
    "4\n" \o
    "4\n" \o
    "4\n" \o
    "1\n" \o
    "Qty\n" \o
    "Kind Attn Valued Customer\n" \o
    "Reference\n" \o
    " 1,037,400.00\n" \o
    " 1,300.00\n" \o
    " 12,712.00\n" \o
    " 50,848.00\n" \o
    "Rate\n" \o
    " 3,402,672.00\n" \o
    " 5,200.00\n" \o
    " 50,848.00\n" \o
    " 25,424.00\n" \o
    "Value\n" \o
    "Payment\n" \o
    "Delivery\n" \o
    "Net Value\n" \o
    "Type \n" \o
    " 3,484,144.00\n" \o
    " 18.00%\n" \o
    " 50.00%\n" \o
    "ex-stock\n" \o
    "Cash/Chq on Delivery\n" \o
    "Attended By Sales Point\n" \o
    "Remarks Looking forward to your conformed order\n" \o
    "NOTE 1 : Payment in TSHS accepted at the prevailing rate on the date of payment.\n" \o
    "2 : Proforma Invoice is Valid for 2 weeks from date of Proforma.\n" \o
    "3 : Discount is Valid only for the above Quantity.\n" \o
    "TSH TSH\n" \o
    "Gross Value\n" \o
    "VAT 627,145.92\n" \o
    "TSH 4,111,289.92\n" \o
    ":\n" \o
    ":\n" \o
    ":\n" \o
    ": :\n" \o
    ":\n" \o
    ":\n" \o
    ":\n" \o
    ":\n" \o
    ":\n" \o
    ":\n" \o
    ":\n" \o
    ":\n" \o
    "Dear Sir/Madam,\n" \o
    "We thank you for your valued enquiry. As desired please find below our detailed best offer\n" \o
    ":\n" \o
    ":\n" \o
    ":\n" \o
    ":\n" \o
    ":\n" \o
    ":\n" \o
    "FOR T 290 EFQ\n" \o
    "4 : Duty and VAT exemption documents to be submitted with the Purchase Order. FRM-STM-SAL-01A"

\* Longest line sequence of a generated text.
MaxLines == 3

\* The lines generated texts are made of: an item table header, pure
\* numbers (short and long), an item row, a summary row, an empty line,
\* a date, and a padded unit label.
LineAlphabet ==
    {"Item Description Qty Amount", "3", "2132004", "Brake pad 4 5,200.00",
     "Total 5,200.00", "", "25/10/2025", "  PCS "}

\* The most calls one caller makes in a row.
MaxCalls == 3

\* Texts a caller parses more than once.
RepeatTexts ==
    {" ", "Brake pad 4 5,200.00",
     "Item Description Qty Amount\nBrake pad 4 5,200.00\nTotal 5,200.00",
     "Item Description Qty Amount\nWheel nut 2 1,300.00"}

\* Further texts: an item row and a total whose amount is a lone comma;
\* a summary line without an item before it, followed by an item row; a
\* summary line that also holds a header keyword, between two item rows;
\* quantity candidates 4.00, 1000 and 0; a description of 300 characters.
ExtraTexts ==
    {"Item Description Qty Amount\nBrake pad 4 ,\nTotal: ,",
     "Item Description Qty Amount\nnote\nTotal 1\nBrake pad 4 5,200.00",
     "Item Description Qty Amount\nBrake pad 4 5,200.00\nAmount Due 5,200.00\nWheel nut 2 1,300.00",
     "Item Description Qty Amount\nBrake pad 4.00 5,200.00",
     "Item Description Qty Amount\nBrake pad 1000 5,200.00",
     "Item Description Qty Amount\nBrake pad 0 5,200.00",
     "Item Description Qty Amount\n"
        \o "Brake pad Brake pad Brake pad Brake pad Brake pad Brake pad Brake pad Brake pad Brake pad Brake pad "
        \o "Brake pad Brake pad Brake pad Brake pad Brake pad Brake pad Brake pad Brake pad Brake pad Brake pad "
        \o "Brake pad Brake pad Brake pad Brake pad Brake pad Brake pad Brake pad Brake pad Brake pad Brake pad "
        \o "4 5,200.00",
     "ab\ncd\nef\ngh\nij\nkl\nmn\nop\nqr\nst\nACME TRADING LTD",
     "ab\nACME TRADING LTD",
     "Address\nPlot 5 Main Road\nTel 123\nKariakoo",
     "Address: Plot 5 Main Road\n(Tel) 123 456"}

RECURSIVE JoinLines(_)
\* '\n'.join(ls)
JoinLines(ls) ==
    IF Len(ls) = 0 THEN ""
    ELSE IF Len(ls) = 1 THEN ls[1]
    ELSE ls[1] \o "\n" \o JoinLines(Tail(ls))

\* Texts handed to the parsers: every sequence of at most MaxLines lines
\* of the alphabet, whitespace-only texts, and the sample invoice.
Texts ==
    UNION {{JoinLines(ls) : ls \in [1..n -> LineAlphabet]} : n \in 0..MaxLines}
    \cup {" ", "\n", " \t\n ", sample_text}
    \cup RepeatTexts \cup ExtraTexts

\* Amount strings handed to the normalizers: the two sample amounts bare,
\* padded and with a currency code, other well-formed amounts, and
\* malformed ones.
AmountStrings ==
    {"1,037,400.00", " 1,037,400.00 ", "TSH 1,037,400.00", "1,037,400.00 USD",
     "3,484,144.00", "\t3,484,144.00\n", "TZS 3,484,144.00", "3,484,144.00/=",
     "5,200.00", "18.00%", "007", ".5", "12.", "-5", "0",
     "", " ", "abc", ",", ".", "-", "1.2.3", "1-2", "5-", "--5", "10..5"}

\* Texts the PDF libraries return.
PdfTexts ==
    {"", " \n", "Brake pad 4 5,200.00",
     "Item Description Qty Amount\nBrake pad 4 5,200.00\nTotal 5,200.00"}

\* Uploaded contents (first bytes) and file names.
FileContents == {"", "%PDF-1.4 x", "%PD", "GIF89a", "PK34"}

FileNames ==
    {"", "invoice.pdf", "INVOICE.PDF", "scan.jpg", "scan.JPEG", "scan.png", "scan.gif",
     "scan.tiff", "scan.bmp", "report.docx", "scan.png.pdf", "pdf"}

\* ------------------------------------------------------------------------
\* State
\* ------------------------------------------------------------------------

VARIABLES
    entry,                  \* the function the caller invoked
    file_bytes, filename,   \* arguments of extract_from_bytes
    fitz, PyPDF2,           \* TRUE when the module imported (not None)
    pc,                     \* position in the running call
    text,                   \* the text argument / extracted text
    exc,                    \* str(e) of the exception being handled
    calls,                  \* how often each collaborator was entered
    fields,                 \* the header values parse_invoice_data found
    lines, idx,             \* the line list and the index of the loop
    item_section_started, item_header_idx,
    items,                  \* the item list built so far
    parsed,                 \* return value of parse_invoice_data
    result,                 \* return value of extract_from_bytes
    data,                   \* return value of extract_invoice_data
    amount,                 \* return value of to_decimal / _parse_amount
    history                 \* the earlier calls of the caller: <<text, record>>

vars ==
    <<entry, file_bytes, filename, fitz, PyPDF2, pc, text, exc, calls, fields,
      lines, idx, item_section_started, item_header_idx, items, parsed, result, data,
      amount, history>>

inputVars == <<entry, file_bytes, filename, fitz, PyPDF2>>

loopVars == <<lines, idx, item_section_started, item_header_idx, items>>

callerVars == <<amount, history>>

\* {} (the empty dict)
EmptyDict == <<>>

NoCalls == [extract_text_from_pdf |-> 0, parse_invoice_data |-> 0]

\* A local variable or return value the call has not assigned yet.
Unassigned == [unassigned |-> TRUE]

Init ==
    /\ entry \in {"extract_from_bytes", "parse_invoice_data", "extract_invoice_data",
                  "to_decimal", "_parse_amount"}
    /\ IF entry = "extract_from_bytes"
       THEN /\ file_bytes \in FileContents
            /\ filename \in FileNames
            /\ fitz \in BOOLEAN
            /\ PyPDF2 \in BOOLEAN
            /\ text = ""
            /\ pc = "efb_entry"
       ELSE /\ file_bytes = ""
            /\ filename = ""
            /\ fitz = FALSE
            /\ PyPDF2 = FALSE
            /\ IF entry \in {"to_decimal", "_parse_amount"}
               THEN text \in AmountStrings /\ pc = "amount_entry"
               ELSE /\ text \in Texts
                    /\ pc = IF entry = "parse_invoice_data" THEN "parse_entry" ELSE "ocr_entry"
    /\ exc = NoneVal
    /\ calls = NoCalls
    /\ fields = Unassigned
    /\ lines = <<>>
    /\ idx = 0
    /\ item_section_started = FALSE
    /\ item_header_idx = -1
    /\ items = <<>>
    /\ parsed = Unassigned
    /\ result = Unassigned
    /\ data = Unassigned
    /\ amount = Unassigned
    /\ history = <<>>

\* ------------------------------------------------------------------------
\* extract_from_bytes
\* ------------------------------------------------------------------------

\* file_bytes[:4]
FirstFour(b) == SubSeq(b, 1, IF Len(b) < 4 THEN Len(b) ELSE 4)

\* 'pdf' in filename.lower() in place of endswith('.pdf')
IsPdfBySubstring(b, name) ==
    Found(<<Lit("pdf")>>, Lower(name), FALSE) \/ FirstFour(b) = "%PDF"

\* is_pdf = filename.lower().endswith('.pdf') or file_bytes[:4] == b'%PDF'
IsPdf(b, name) == EndsWith(Lower(name), ".pdf") \/ FirstFour(b) = "%PDF"

ImageExtensions == {".jpg", ".jpeg", ".png", ".gif", ".tiff", ".bmp"}

\* The extension tuple without '.bmp'.
IsImageWithoutBmp(name) ==
    \E ext \in ImageExtensions \ {".bmp"} : EndsWith(Lower(name), ext)

\* is_image = filename.lower().endswith(('.jpg', ...))
IsImage(name) == \E ext \in ImageExtensions : EndsWith(Lower(name), ext)

\* The dict of a failed extraction.
Failure(error, message, raw_text) ==
    [success |-> FALSE, error |-> error, message |-> message, ocr_available |-> FALSE,
     header |-> EmptyDict, items |-> <<>>, raw_text |-> raw_text]

\* The message without the exception text.
PdfFailedMessageWithoutCause(e) ==
    "Failed to extract text from PDF. Please enter invoice details manually."

\* The message of 'pdf_extraction_failed' for the exception text e.
PdfFailedMessage(e) ==
    "Failed to extract text from PDF: " \o e \o ". Please enter invoice details manually."

NoLibraryMessage == "No PDF text extraction library available. Install PyMuPDF or PyPDF2."

\* if not file_bytes: return {... 'empty_file' ...}
EfbEmptyFile ==
    /\ pc = "efb_entry"
    /\ file_bytes = ""
    /\ result' = Failure("empty_file", "File is empty", "")
    /\ pc' = "done"
    /\ UNCHANGED <<inputVars, callerVars, text, exc, calls, fields, loopVars, parsed, data>>

\* The PDF branch taken without the emptiness check in front of it.
EfbExtractTextBeforeEmptyCheck ==
    /\ pc = "efb_entry"
    /\ IsPdf(file_bytes, filename)
    /\ calls' = [calls EXCEPT !.extract_text_from_pdf = @ + 1]
    /\ text' = ""
    /\ pc' = "pdf_fitz"
    /\ UNCHANGED <<inputVars, callerVars, exc, fields, loopVars, parsed, result, data>>

\* if is_pdf: try: text = extract_text_from_pdf(file_bytes)
EfbExtractText ==
    /\ pc = "efb_entry"
    /\ file_bytes # ""
    /\ IsPdf(file_bytes, filename)
    /\ calls' = [calls EXCEPT !.extract_text_from_pdf = @ + 1]
    /\ text' = ""
    /\ pc' = "pdf_fitz"
    /\ UNCHANGED <<inputVars, callerVars, exc, fields, loopVars, parsed, result, data>>

\* elif is_image: return {... 'image_file_not_supported' ...}
EfbImage ==
    /\ pc = "efb_entry"
    /\ file_bytes # ""
    /\ ~IsPdf(file_bytes, filename)
    /\ IsImage(filename)
    /\ result' = Failure("image_file_not_supported",
                         "Image files require manual entry (OCR not available). Please save as PDF or enter details manually.",
                         "")
    /\ pc' = "done"
    /\ UNCHANGED <<inputVars, callerVars, text, exc, calls, fields, loopVars, parsed, data>>

\* else: return {... 'unsupported_file_type' ...}
EfbUnsupported ==
    /\ pc = "efb_entry"
    /\ file_bytes # ""
    /\ ~IsPdf(file_bytes, filename)
    /\ ~IsImage(filename)
    /\ result' = Failure("unsupported_file_type",
                         "Please upload a PDF file (images are not supported without OCR).", "")
    /\ pc' = "done"
    /\ UNCHANGED <<inputVars, callerVars, text, exc, calls, fields, loopVars, parsed, data>>

\* extract_text_from_pdf: fitz opens the document and returns its text.
FitzReturns ==
    /\ pc = "pdf_fitz"
    /\ fitz
    /\ \E t \in PdfTexts : text' = t
    /\ pc' = "efb_text"
    /\ UNCHANGED <<inputVars, callerVars, exc, calls, fields, loopVars, parsed, result, data>>

\* extract_text_from_pdf: fitz raises; the text read so far is dropped.
FitzFails ==
    /\ pc = "pdf_fitz"
    /\ fitz
    /\ text' = ""
    /\ pc' = "pdf_pypdf2"
    /\ UNCHANGED <<inputVars, callerVars, exc, calls, fields, loopVars, parsed, result, data>>

\* extract_text_from_pdf: fitz is None.
FitzMissing ==
    /\ pc = "pdf_fitz"
    /\ ~fitz
    /\ pc' = "pdf_pypdf2"
    /\ UNCHANGED <<inputVars, callerVars, text, exc, calls, fields, loopVars, parsed, result, data>>

\* extract_text_from_pdf: PyPDF2 reads the pages and returns their text.
PyPDF2Returns ==
    /\ pc = "pdf_pypdf2"
    /\ PyPDF2
    /\ \E t \in PdfTexts : text' = t
    /\ pc' = "efb_text"
    /\ UNCHANGED <<inputVars, callerVars, exc, calls, fields, loopVars, parsed, result, data>>

\* extract_text_from_pdf: PyPDF2 raises.
PyPDF2Fails ==
    /\ pc = "pdf_pypdf2"
    /\ PyPDF2
    /\ text' = ""
    /\ pc' = "pdf_no_library"
    /\ UNCHANGED <<inputVars, callerVars, exc, calls, fields, loopVars, parsed, result, data>>

\* extract_text_from_pdf: PyPDF2 is None.
PyPDF2Missing ==
    /\ pc = "pdf_pypdf2"
    /\ ~PyPDF2
    /\ pc' = "pdf_no_library"
    /\ UNCHANGED <<inputVars, callerVars, text, exc, calls, fields, loopVars, parsed, result, data>>

\* extract_text_from_pdf: if not text: raise RuntimeError(...); return text
PdfNoLibrary ==
    /\ pc = "pdf_no_library"
    /\ IF text = ""
       THEN exc' = NoLibraryMessage /\ pc' = "efb_pdf_except"
       ELSE exc' = exc /\ pc' = "efb_text"
    /\ UNCHANGED <<inputVars, callerVars, text, calls, fields, loopVars, parsed, result, data>>

\* except Exception as e: return {... 'pdf_extraction_failed' ...}
EfbPdfFailed ==
    /\ pc = "efb_pdf_except"
    /\ result' = Failure("pdf_extraction_failed", PdfFailedMessage(exc), "")
    /\ pc' = "done"
    /\ UNCHANGED <<inputVars, callerVars, text, exc, calls, fields, loopVars, parsed, data>>

\* if text.strip(): in place of if text:
HasTextAfterStrip(t) == Strip(t) # ""

\* if text:
HasText(t) == t # ""

\* if text: try: parsed = parse_invoice_data(text)
EfbParse ==
    /\ pc = "efb_text"
    /\ HasText(text)
    /\ calls' = [calls EXCEPT !.parse_invoice_data = @ + 1]
    /\ pc' = "parse_entry"
    /\ UNCHANGED <<inputVars, callerVars, text, exc, fields, loopVars, parsed, result, data>>

\* return {... 'no_text_extracted' ...}
EfbNoText ==
    /\ pc = "efb_text"
    /\ ~HasText(text)
    /\ result' = Failure("no_text_extracted",
                         "No text found in PDF. Please enter invoice details manually.", "")
    /\ pc' = "done"
    /\ UNCHANGED <<inputVars, callerVars, text, exc, calls, fields, loopVars, parsed, data>>

\* The parser raises inside the try block of extract_from_bytes (the
\* parser as a collaborator that fails unexpectedly).
ParserRaises ==
    /\ pc = "parse_entry"
    /\ entry = "extract_from_bytes"
    /\ exc' = "unexpected parser error"
    /\ pc' = "efb_parse_except"
    /\ UNCHANGED <<inputVars, callerVars, text, calls, fields, loopVars, parsed, result, data>>

\* The parser's exception leaves extract_from_bytes (no except clause).
EfbParsingFailedPropagates ==
    /\ pc = "efb_parse_except"
    /\ pc' = "raised"
    /\ UNCHANGED <<inputVars, callerVars, text, exc, calls, fields, loopVars, parsed, result, data>>

\* except Exception as e: return {... 'parsing_failed' ...}
EfbParsingFailed ==
    /\ pc = "efb_parse_except"
    /\ result' = Failure("parsing_failed",
                         "Could not extract structured data from PDF. Please enter invoice details manually.",
                         text)
    /\ pc' = "done"
    /\ UNCHANGED <<inputVars, callerVars, text, exc, calls, fields, loopVars, parsed, data>>

\* The success result with 'items': [] in place of the parser's items.
EfbSuccessEmptyItems ==
    /\ pc = "parse_done"
    /\ entry = "extract_from_bytes"
    /\ result' = [success |-> TRUE,
                  header |-> [invoice_no |-> parsed.invoice_no, date |-> parsed.date,
                              customer_name |-> parsed.customer_name, phone |-> parsed.phone,
                              email |-> parsed.email, address |-> parsed.address,
                              subtotal |-> parsed.subtotal, tax |-> parsed.tax,
                              total |-> parsed.total],
                  items |-> <<>>,
                  raw_text |-> text,
                  ocr_available |-> FALSE,
                  message |-> "Invoice data extracted successfully from PDF"]
    /\ pc' = "done"
    /\ UNCHANGED <<inputVars, callerVars, text, exc, calls, fields, loopVars, parsed, data>>

\* return {'success': True, 'header': {...}, 'items': ..., 'raw_text': text, ...}
EfbSuccess ==
    /\ pc = "parse_done"
    /\ entry = "extract_from_bytes"
    /\ result' = [success |-> TRUE,
                  header |-> [invoice_no |-> parsed.invoice_no, date |-> parsed.date,
                              customer_name |-> parsed.customer_name, phone |-> parsed.phone,
                              email |-> parsed.email, address |-> parsed.address,
                              subtotal |-> parsed.subtotal, tax |-> parsed.tax,
                              total |-> parsed.total],
                  items |-> parsed.items,
                  raw_text |-> text,
                  ocr_available |-> FALSE,
                  message |-> "Invoice data extracted successfully from PDF"]
    /\ pc' = "done"
    /\ UNCHANGED <<inputVars, callerVars, text, exc, calls, fields, loopVars, parsed, data>>

\* ------------------------------------------------------------------------
\* parse_invoice_data
\* ------------------------------------------------------------------------

\* The returned dict: the header values and the item list.
RecordOf(f, its) ==
    [invoice_no |-> f.invoice_no, code_no |-> f.code_no, date |-> f.date,
     customer_name |-> f.customer_name, phone |-> f.phone, email |-> f.email,
     address |-> f.address, reference |-> f.reference, subtotal |-> f.subtotal,
     tax |-> f.tax, total |-> f.total, items |-> its]

\* if not text or not text.strip(): return {... all None, 'items': []}
ParseBlank ==
    /\ pc = "parse_entry"
    /\ IsBlankText(text)
    /\ parsed' = RecordOf(EmptyFields, <<>>)
    /\ pc' = "parse_done"
    /\ UNCHANGED <<inputVars, callerVars, text, exc, calls, fields, loopVars, result, data>>

\* A call that starts with the item list of the call before it.
ParseHeaderKeepsItems ==
    /\ pc = "parse_entry"
    /\ ~IsBlankText(text)
    /\ fields' = HeaderFields(Strip(text))
    /\ lines' = Split(Strip(text), "\n")
    /\ idx' = 0
    /\ item_section_started' = FALSE
    /\ item_header_idx' = -1
    /\ pc' = "items_loop"
    /\ UNCHANGED <<inputVars, callerVars, text, exc, calls, items, parsed, result, data>>

\* normalized_text = text.strip(); the header fields; the loop set-up.
ParseHeader ==
    /\ pc = "parse_entry"
    /\ ~IsBlankText(text)
    /\ fields' = HeaderFields(Strip(text))
    /\ lines' = Split(Strip(text), "\n")
    /\ idx' = 0
    /\ item_section_started' = FALSE
    /\ item_header_idx' = -1
    /\ items' = <<>>
    /\ pc' = "items_loop"
    /\ UNCHANGED <<inputVars, callerVars, text, exc, calls, parsed, result, data>>

\* line = line.strip() of the current iteration
CurrentLine == Strip(lines[idx + 1])

InLoop == pc = "items_loop" /\ idx < Len(lines)

\* if item_section_started and idx > item_header_idx + 1 and re.search(footer)
AtFooter ==
    item_section_started /\ idx > item_header_idx + 1 /\ IsFooter(CurrentLine)

\* if not line: continue
LoopBlank ==
    /\ InLoop
    /\ CurrentLine = ""
    /\ idx' = idx + 1
    /\ UNCHANGED <<inputVars, callerVars, pc, text, exc, calls, fields, lines, item_section_started,
                   item_header_idx, items, parsed, result, data>>

\* the item section header: item_section_started = True; continue
LoopHeader ==
    /\ InLoop
    /\ CurrentLine # ""
    /\ IsItemHeader(CurrentLine)
    /\ item_section_started' = TRUE
    /\ item_header_idx' = idx
    /\ idx' = idx + 1
    /\ UNCHANGED <<inputVars, callerVars, pc, text, exc, calls, fields, lines, items, parsed, result, data>>

\* the summary/footer line: item_section_started = False; break
LoopFooter ==
    /\ InLoop
    /\ CurrentLine # ""
    /\ ~IsItemHeader(CurrentLine)
    /\ AtFooter
    /\ item_section_started' = FALSE
    /\ pc' = "parse_return"
    /\ UNCHANGED <<inputVars, callerVars, text, exc, calls, fields, lines, idx, item_header_idx, items,
                   parsed, result, data>>

\* a line of the item section that qualifies: items.append({...})
LoopItem ==
    /\ InLoop
    /\ CurrentLine # ""
    /\ ~IsItemHeader(CurrentLine)
    /\ ~AtFooter
    /\ item_section_started /\ idx > item_header_idx
    /\ IsItemLine(CurrentLine)
    /\ items' = Append(items, ItemOf(CurrentLine))
    /\ idx' = idx + 1
    /\ UNCHANGED <<inputVars, callerVars, pc, text, exc, calls, fields, lines, item_section_started,
                   item_header_idx, parsed, result, data>>

\* A skipped line that is looked at again.
LoopSkipSameLine ==
    /\ InLoop
    /\ CurrentLine # ""
    /\ ~IsItemHeader(CurrentLine)
    /\ ~AtFooter
    /\ ~(item_section_started /\ idx > item_header_idx /\ IsItemLine(CurrentLine))
    /\ idx' = idx
    /\ UNCHANGED <<inputVars, callerVars, pc, text, exc, calls, fields, lines, item_section_started,
                   item_header_idx, items, parsed, result, data>>

\* any other line: nothing is appended
LoopSkip ==
    /\ InLoop
    /\ CurrentLine # ""
    /\ ~IsItemHeader(CurrentLine)
    /\ ~AtFooter
    /\ ~(item_section_started /\ idx > item_header_idx /\ IsItemLine(CurrentLine))
    /\ idx' = idx + 1
    /\ UNCHANGED <<inputVars, callerVars, pc, text, exc, calls, fields, lines, item_section_started,
                   item_header_idx, items, parsed, result, data>>

\* the for loop is exhausted
LoopEnd ==
    /\ pc = "items_loop"
    /\ idx >= Len(lines)
    /\ pc' = "parse_return"
    /\ UNCHANGED <<inputVars, callerVars, text, exc, calls, fields, loopVars, parsed, result, data>>

\* return {...}
ParseReturn ==
    /\ pc = "parse_return"
    /\ parsed' = RecordOf(fields, items)
    /\ pc' = "parse_done"
    /\ UNCHANGED <<inputVars, callerVars, text, exc, calls, fields, loopVars, result, data>>

\* The caller keeps the returned record and calls parse_invoice_data
\* again: the argument is new, everything else is as the call before left it.
ParseAgain ==
    /\ entry = "parse_invoice_data"
    /\ pc = "parse_done"
    /\ text \in RepeatTexts
    /\ Len(history) < MaxCalls - 1
    /\ history' = Append(history, <<text, parsed>>)
    /\ text' \in RepeatTexts
    /\ pc' = "parse_entry"
    /\ UNCHANGED <<inputVars, amount, exc, calls, fields, loopVars, parsed, result, data>>

\* ------------------------------------------------------------------------
\* InvoiceDataExtractor.extract_invoice_data / _extract_items
\* (of the returned dict only the 'items' entry is modelled)
\* ------------------------------------------------------------------------

\* kw in s
Contains(s, kw) == Found(<<Lit(kw)>>, s, FALSE)

KEYWORDS_CUSTOMER_NAME ==
    <<"customer name", "customer:", "bill to", "sold to", "customer ref", "code no">>

KEYWORDS_CUSTOMER_ADDRESS ==
    <<"address", "location", "customer address", "bill to", "p.o.box", "dar", "dar-es-salaam">>

\* for line in lines[:10]
NameFallbackLines == 10

\* line.split(':', 1)[1].strip()
AfterColon(line) ==
    Let(line, LAMBDA l :
        LET colon == CHOOSE i \in 1..Len(l) : At(l, i) = ":" /\ \A j \in 1..(i - 1) : At(l, j) # ":"
        IN  Strip(SubSeq(l, colon + 1, Len(l))))

\* The name the lines holding keyword give: at the first such line that
\* gives one, the next line when it is longer than 3 characters, else what
\* follows the colon of the line when that is longer than 3 characters.
OcrLabelledName(ls, keyword) ==
    LET name(i) == IF i + 1 <= Len(ls) /\ Len(Strip(ls[i + 1])) > 3 THEN Strip(ls[i + 1])
                   ELSE IF Contains(ls[i], ":") /\ Len(AfterColon(ls[i])) > 3
                        THEN AfterColon(ls[i])
                   ELSE NoneVal
    IN  Let({i \in 1..Len(ls) : Contains(Lower(ls[i]), keyword) /\ name(i) # NoneVal},
            LAMBDA hits : IF hits = {} THEN NoneVal
                          ELSE name(CHOOSE i \in hits : \A j \in hits : i <= j))

\* Fallback: the first of the first 10 lines with two or more words whose
\* words of more than one character all start with an upper-case letter.
OcrFallbackName(ls) ==
    LET capitalized(line) ==
            Let(Split(Collapse(line), " "), LAMBDA words :
                /\ Collapse(line) # "" /\ Len(words) >= 2
                /\ \A k \in 1..Len(words) : Len(words[k]) > 1 => At(words[k], 1) \in UpperSet)
        last == IF Len(ls) < NameFallbackLines THEN Len(ls) ELSE NameFallbackLines
    IN  Let({i \in 1..last : capitalized(ls[i])},
            LAMBDA hits : IF hits = {} THEN NoneVal
                          ELSE ls[CHOOSE i \in hits : \A j \in hits : i <= j])

\* _extract_customer_name(text_lower, lines): the keywords in order, then
\* the fallback.
OcrCustomerName(t, ls) ==
    Let({k \in 1..Len(KEYWORDS_CUSTOMER_NAME) :
            /\ Contains(Lower(t), KEYWORDS_CUSTOMER_NAME[k])
            /\ OcrLabelledName(ls, KEYWORDS_CUSTOMER_NAME[k]) # NoneVal},
        LAMBDA hits :
            IF hits = {} THEN OcrFallbackName(ls)
            ELSE OcrLabelledName(ls, KEYWORDS_CUSTOMER_NAME[CHOOSE k \in hits : \A j \in hits : k <= j]))

\* address_lines of the label line i, joined: of the up to three lines
\* after it, those that hold none of 'tel', 'phone', 'email'.
OcrAddressAt(ls, i) ==
    LET last == IF i + 3 < Len(ls) THEN i + 3 ELSE Len(ls)
        kept(j) == /\ Strip(ls[j]) # ""
                   /\ \A kw \in {"tel", "phone", "email"} : ~Contains(Lower(Strip(ls[j])), kw)
        RECURSIVE join(_)
        join(j) == IF j > last THEN ""
                   ELSE IF ~kept(j) THEN join(j + 1)
                   ELSE Let(join(j + 1), LAMBDA rest :
                            IF rest = "" THEN Strip(ls[j]) ELSE Strip(ls[j]) \o " " \o rest)
    IN  join(i + 1)

\* _extract_customer_address(text_lower, lines): the first keyword, and for
\* it the first line holding it, that gives a non-empty address.
OcrCustomerAddress(ls) ==
    Let({p \in (1..Len(KEYWORDS_CUSTOMER_ADDRESS)) \X (1..Len(ls)) :
            /\ Contains(Lower(ls[p[2]]), KEYWORDS_CUSTOMER_ADDRESS[p[1]])
            /\ OcrAddressAt(ls, p[2]) # ""},
        LAMBDA hits :
            IF hits = {} THEN NoneVal
            ELSE OcrAddressAt(ls, (CHOOSE p \in hits :
                                      \A q \in hits : p[1] < q[1] \/ (p[1] = q[1] /\ p[2] <= q[2]))[2]))

\* lines = [line.strip() for line in text.split('\n') if line.strip()]
NonEmptyLines(t) ==
    Let(Split(t, "\n"), LAMBDA ls :
        LET nonEmpty(l) == l # ""
        IN  SelectSeq([k \in 1..Len(ls) |-> Strip(ls[k])], nonEmpty))

\* if not text: return {}
OcrNoText ==
    /\ pc = "ocr_entry"
    /\ text = ""
    /\ data' = EmptyDict
    /\ pc' = "ocr_done"
    /\ UNCHANGED <<inputVars, callerVars, text, exc, calls, fields, loopVars, parsed, result>>

\* the line list; items = []
OcrStart ==
    /\ pc = "ocr_entry"
    /\ text # ""
    /\ lines' = NonEmptyLines(text)
    /\ idx' = 0
    /\ fields' = [customer_name |-> OcrCustomerName(text, lines'),
                  customer_address |-> OcrCustomerAddress(lines')]
    /\ items' = <<>>
    /\ pc' = "ocr_loop"
    /\ UNCHANGED <<inputVars, callerVars, text, exc, calls, item_section_started, item_header_idx,
                   parsed, result, data>>

InOcrLoop == pc = "ocr_loop" /\ idx < Len(lines)

\* a header/meta line: continue
OcrSkipMeta ==
    /\ InOcrLoop
    /\ IsMetaLine(lines[idx + 1])
    /\ idx' = idx + 1
    /\ UNCHANGED <<inputVars, callerVars, pc, text, exc, calls, fields, lines, item_section_started,
                   item_header_idx, items, parsed, result, data>>

\* if not amounts: continue
OcrNoAmounts ==
    /\ InOcrLoop
    /\ ~IsMetaLine(lines[idx + 1])
    /\ FindAll(amount_re, lines[idx + 1], FALSE) = <<>>
    /\ idx' = idx + 1
    /\ UNCHANGED <<inputVars, callerVars, pc, text, exc, calls, fields, lines, item_section_started,
                   item_header_idx, items, parsed, result, data>>

\* items.append(item)
OcrItem ==
    /\ InOcrLoop
    /\ ~IsMetaLine(lines[idx + 1])
    /\ FindAll(amount_re, lines[idx + 1], FALSE) # <<>>
    /\ items' = Append(items, OcrItemOf(lines[idx + 1]))
    /\ idx' = idx + 1
    /\ UNCHANGED <<inputVars, callerVars, pc, text, exc, calls, fields, lines, item_section_started,
                   item_header_idx, parsed, result, data>>

\* return items
OcrReturn ==
    /\ pc = "ocr_loop"
    /\ idx >= Len(lines)
    /\ data' = LET name == fields.customer_name
                    address == fields.customer_address
                IN  IF name # NoneVal /\ address # NoneVal
                    THEN [customer_name |-> name, customer_address |-> address, items |-> items]
                    ELSE IF name # NoneVal THEN [customer_name |-> name, items |-> items]
                    ELSE IF address # NoneVal THEN [customer_address |-> address, items |-> items]
                    ELSE [items |-> items]
    /\ pc' = "ocr_done"
    /\ UNCHANGED <<inputVars, callerVars, text, exc, calls, fields, loopVars, parsed, result>>

\* ------------------------------------------------------------------------
\* The amount normalizers called on their own
\* ------------------------------------------------------------------------

\* to_decimal(s) returns or lets an exception out
ToDecimalReturns ==
    /\ entry = "to_decimal"
    /\ pc = "amount_entry"
    /\ amount' = [value |-> to_decimal(text)]
    /\ pc' = IF amount'.value = InvalidOperation THEN "raised" ELSE "amount_done"
    /\ UNCHANGED <<inputVars, history, text, exc, calls, fields, loopVars, parsed, result, data>>

\* self._parse_amount(amount_str) returns or lets an exception out
ParseAmountReturns ==
    /\ entry = "_parse_amount"
    /\ pc = "amount_entry"
    /\ amount' = [value |-> parse_amount(text)]
    /\ pc' = IF amount'.value = InvalidOperation THEN "raised" ELSE "amount_done"
    /\ UNCHANGED <<inputVars, history, text, exc, calls, fields, loopVars, parsed, result, data>>

\* ------------------------------------------------------------------------
\* Specification
\* ------------------------------------------------------------------------

Next ==
    \/ EfbEmptyFile \/ EfbExtractText \/ EfbImage \/ EfbUnsupported
    \/ FitzReturns \/ FitzFails \/ FitzMissing
    \/ PyPDF2Returns \/ PyPDF2Fails \/ PyPDF2Missing \/ PdfNoLibrary
    \/ EfbPdfFailed \/ EfbParse \/ EfbNoText \/ ParserRaises \/ EfbParsingFailed \/ EfbSuccess
    \/ ParseBlank \/ ParseHeader
    \/ LoopBlank \/ LoopHeader \/ LoopFooter \/ LoopItem \/ LoopSkip \/ LoopEnd \/ ParseReturn
    \/ ParseAgain
    \/ ToDecimalReturns \/ ParseAmountReturns
    \/ OcrNoText \/ OcrStart \/ OcrSkipMeta \/ OcrNoAmounts \/ OcrItem \/ OcrReturn

Spec == Init /\ [][Next]_vars

\* Every step of a call is taken eventually: the code is sequential and
\* nothing blocks.
FairSpec == Spec /\ WF_vars(Next)

\* The call has returned.
Returned ==
    \/ pc = "done"
    \/ pc = "parse_done" /\ entry = "parse_invoice_data"
    \/ pc = "ocr_done"
    \/ pc = "amount_done"

\* ------------------------------------------------------------------------
\* Properties
\* ------------------------------------------------------------------------

\* C1: for every text that is empty or made of whitespace only,
\* parse_invoice_data returns (it does not raise) a record whose eleven
\* header fields are None and whose items list is empty.
C1_BlankTextGivesEmptyRecord ==
    LET blank == \A i \in 1..Len(text) : At(text, i) \in WhiteSpace
        headerKeys == {"invoice_no", "code_no", "date", "customer_name", "address", "phone",
                       "email", "reference", "subtotal", "tax", "total"}
    IN  /\ pc # "raised"
        /\ (pc = "parse_done" /\ blank) =>
               /\ DOMAIN parsed = headerKeys \cup {"items"}
               /\ \A k \in headerKeys : parsed[k] = NoneVal
               /\ parsed.items = <<>>

\* A direct call of parse_invoice_data on a non-empty text of whitespace
\* has returned.
C1_Witness ==
    /\ entry = "parse_invoice_data"
    /\ pc = "parse_done"
    /\ text = " \t\n "
    /\ parsed.items = <<>>

\* C2: whatever the bytes, the filename and the collaborators do,
\* extract_from_bytes lets no exception out and returns one tagged
\* outcome: success without an error tag, or failure with one of the six
\* error tags.
C2_OneTaggedOutcome ==
    LET tags == {"empty_file", "pdf_extraction_failed", "image_file_not_supported",
                 "unsupported_file_type", "parsing_failed", "no_text_extracted"}
    IN  entry = "extract_from_bytes" =>
            /\ pc # "raised"
            /\ pc = "done" =>
                   /\ result.success \in BOOLEAN
                   /\ result.success => "error" \notin DOMAIN result
                   /\ ~result.success => ("error" \in DOMAIN result /\ result.error \in tags)

\* extract_from_bytes has returned 'parsing_failed' after the parser raised.
C2_Witness ==
    /\ entry = "extract_from_bytes"
    /\ pc = "done"
    /\ exc = "unexpected parser error"
    /\ ~result.success
    /\ result.error = "parsing_failed"

\* C3: non-empty bytes that are not a PDF (no '.pdf' extension, no '%PDF'
\* magic bytes) under a filename without image extension give
\* 'unsupported_file_type' with success false and no items, and neither
\* extract_text_from_pdf nor parse_invoice_data is called.
C3_UnsupportedFileType ==
    LET name == Lower(filename)
        pdf == EndsWith(name, ".pdf") \/ (Len(file_bytes) >= 4 /\ SubSeq(file_bytes, 1, 4) = "%PDF")
        image == \E e \in {".jpg", ".jpeg", ".png", ".gif", ".tiff", ".bmp"} : EndsWith(name, e)
    IN  (entry = "extract_from_bytes" /\ Len(file_bytes) > 0 /\ ~pdf /\ ~image) =>
            /\ calls.extract_text_from_pdf = 0
            /\ calls.parse_invoice_data = 0
            /\ pc \in {"efb_entry", "done"}
            /\ pc = "done" =>
                   /\ ~result.success
                   /\ result.error = "unsupported_file_type"
                   /\ result.items = <<>>

\* extract_from_bytes has returned for a '.docx' upload.
C3_Witness ==
    /\ pc = "done"
    /\ filename = "report.docx"
    /\ file_bytes = "PK34"
    /\ result.error = "unsupported_file_type"

\* C4 as stated: non-empty bytes under a filename with an image extension
\* give 'image_file_not_supported' and text extraction is never
\* attempted, whatever the leading bytes are.
C4_ImageNameNeverExtracted ==
    LET name == Lower(filename)
        image == \E e \in {".jpg", ".jpeg", ".png", ".gif", ".tiff", ".bmp"} : EndsWith(name, e)
    IN  (entry = "extract_from_bytes" /\ Len(file_bytes) > 0 /\ image) =>
            /\ calls.extract_text_from_pdf = 0
            /\ pc = "done" => (~result.success /\ result.error = "image_file_not_supported")

\* C4 amended: non-empty bytes that do not begin with '%PDF', under a
\* filename with an image extension, give 'image_file_not_supported'
\* with success false, and text extraction is never attempted.
C4_ImageWithoutPdfMagic ==
    LET name == Lower(filename)
        image == \E e \in {".jpg", ".jpeg", ".png", ".gif", ".tiff", ".bmp"} : EndsWith(name, e)
    IN  (entry = "extract_from_bytes" /\ Len(file_bytes) > 0 /\ image
         /\ ~(Len(file_bytes) >= 4 /\ SubSeq(file_bytes, 1, 4) = "%PDF")) =>
            /\ calls.extract_text_from_pdf = 0
            /\ calls.parse_invoice_data = 0
            /\ pc \in {"efb_entry", "done"}
            /\ pc = "done" => (~result.success /\ result.error = "image_file_not_supported")

\* extract_from_bytes has returned for a '.bmp' upload without PDF magic.
C4_Witness ==
    /\ pc = "done"
    /\ filename = "scan.bmp"
    /\ file_bytes = "GIF89a"
    /\ result.error = "image_file_not_supported"

\* C5: zero-length bytes give 'empty_file' with success false for every
\* filename, and no collaborator is called.
C5_EmptyFile ==
    (entry = "extract_from_bytes" /\ Len(file_bytes) = 0) =>
        /\ calls.extract_text_from_pdf = 0
        /\ calls.parse_invoice_data = 0
        /\ pc \in {"efb_entry", "done"}
        /\ pc = "done" => (~result.success /\ result.error = "empty_file")

\* extract_from_bytes has returned for zero bytes named as a PDF.
C5_Witness ==
    /\ pc = "done"
    /\ file_bytes = ""
    /\ filename = "invoice.pdf"
    /\ result.error = "empty_file"

\* C6: when extract_text_from_pdf raises, the next step of
\* extract_from_bytes returns 'pdf_extraction_failed' with success false,
\* a message that contains the text of the exception, an empty header and
\* no items, and parse_invoice_data has not been called.
C6_PdfExtractionFailed ==
    [][pc = "efb_pdf_except" =>
          /\ pc' = "done"
          /\ ~result'.success
          /\ result'.error = "pdf_extraction_failed"
          /\ Len(exc) > 0
          /\ \E i \in 1..(Len(result'.message) - Len(exc) + 1) :
                 SubSeq(result'.message, i, i + Len(exc) - 1) = exc
          /\ result'.header = <<>>
          /\ result'.items = <<>>
          /\ calls'.parse_invoice_data = 0]_vars

\* extract_from_bytes has returned 'pdf_extraction_failed' for a PDF that
\* the installed libraries could not read.
C6_Witness ==
    /\ pc = "done"
    /\ fitz /\ PyPDF2
    /\ exc = NoLibraryMessage
    /\ result.error = "pdf_extraction_failed"

\* C7: a PDF whose text extraction returns the empty string without
\* raising gives 'no_text_extracted' with success false and
\* parse_invoice_data is not called; 'no_text_extracted' is returned in
\* no other situation.
C7_NoTextExtracted ==
    LET pdf == EndsWith(Lower(filename), ".pdf") \/ (Len(file_bytes) >= 4 /\ SubSeq(file_bytes, 1, 4) = "%PDF")
        extractedNothing ==
            /\ Len(file_bytes) > 0
            /\ pdf
            /\ calls.extract_text_from_pdf = 1
            /\ exc = NoneVal
            /\ Len(text) = 0
        noText == ~result.success /\ result.error = "no_text_extracted"
    IN  (entry = "extract_from_bytes" /\ pc = "done") =>
            /\ extractedNothing => (noText /\ calls.parse_invoice_data = 0)
            /\ noText => extractedNothing

\* extract_from_bytes has returned 'no_text_extracted'.
C7_Witness ==
    /\ pc = "done"
    /\ text = ""
    /\ calls.extract_text_from_pdf = 1
    /\ result.error = "no_text_extracted"

\* C8: the item loops of parse_invoice_data and _extract_items terminate
\* for every sequence of lines: each step that stays in the loop moves
\* the line index forward by one, a step leaves the index alone only when
\* it leaves the loop, the index never passes the number of lines, and
\* the call returns.
C8_ItemLoopTerminates ==
    /\ [][(pc = "items_loop" \/ pc = "ocr_loop") =>
             ((pc' = pc /\ idx' = idx + 1)
              \/ (pc' \in {"parse_return", "ocr_done"} /\ idx' = idx))]_vars
    /\ [](pc \in {"items_loop", "ocr_loop"} => idx <= Len(lines))
    /\ <>Returned

\* parse_invoice_data has walked through three lines none of which is an
\* item, up to the end of the input.
C8_Witness ==
    /\ pc = "parse_return"
    /\ Len(lines) = 3
    /\ idx = Len(lines)
    /\ items = <<>>

\* C9: in both item loops a line made of digits only is never appended
\* to the items, whatever the lines before it were.
C9_DigitLineNeverAnItem ==
    [][(pc \in {"items_loop", "ocr_loop"} /\ Len(items') > Len(items)) =>
          LET line == Strip(lines[idx + 1])
          IN  \E i \in 1..Len(line) : At(line, i) \notin DigitChars]_vars

\* C10: on the sample text of the debug script parse_invoice_data returns
\* four items, in document order, with quantities 4, 4, 4, 1 and totals
\* 3402672.00, 5200.00, 50848.00, 25424.00.
C10_SampleGivesFourItems ==
    (entry = "parse_invoice_data" /\ text = sample_text /\ pc = "parse_done") =>
        /\ Len(parsed.items) = 4
        /\ [k \in 1..4 |-> parsed.items[k].qty] = <<4, 4, 4, 1>>
        /\ [k \in 1..4 |-> parsed.items[k].value] =
               <<"3402672.00", "5200.00", "50848.00", "25424.00">>

\* C11: parse_invoice_data carries no state between calls: whenever a call
\* returns, every earlier call of the same caller on the same text (with
\* calls on other texts in between or not) returned the identical record,
\* field by field and item by item.
C11_SameTextSameRecord ==
    (entry = "parse_invoice_data" /\ pc = "parse_done") =>
        \A k \in 1..Len(history) : history[k][1] = text => history[k][2] = parsed

\* A third call returns on the text of the first, after a call on another
\* text that produced an item.
C11_Witness ==
    /\ entry = "parse_invoice_data" /\ pc = "parse_done"
    /\ Len(history) = 2
    /\ history[1][1] = text /\ history[2][1] # text
    /\ history[2][2].items # <<>>
    /\ parsed.items # <<>>

\* C12: an amount with thousands-separator commas normalizes to the exact
\* decimal obtained by deleting the commas, scale preserved ("1,037,400.00"
\* to 1037400.00, "3,484,144.00" to 3484144.00), also when the string
\* carries surrounding whitespace or currency letters; for to_decimal and
\* for _parse_amount.
C12_CommaAmountExact ==
    LET exact == [a \in {"1,037,400.00", "3,484,144.00"} |->
                     IF a = "1,037,400.00" THEN "1037400.00" ELSE "3484144.00"]
        dressed(a) == {a, " " \o a \o " ", "\t" \o a \o "\n", "TSH " \o a, "TZS " \o a,
                       a \o " USD", a \o "/="}
    IN  /\ (entry = "to_decimal" \/ entry = "_parse_amount") => pc # "raised"
        /\ pc = "amount_done" =>
               \A a \in DOMAIN exact : text \in dressed(a) => amount.value = exact[a]

\* C13: an amount string whose cleaned residual is not a decimal number
\* (empty, without a digit, with more than one decimal point, with a minus
\* sign anywhere but in front) normalizes to None and nothing is raised;
\* and parse_invoice_data never stops on a bad amount: it returns, and every
\* amount of its record is None or a decimal.
C13_BadAmountIsNone ==
    LET residual == DropCommas(Strip(Sub(NotAmountChar, "", text, FALSE)))
        count(c) == Cardinality({i \in 1..Len(residual) : At(residual, i) = c})
        malformed == \/ residual = ""
                     \/ \A i \in 1..Len(residual) : At(residual, i) \notin DigitChars
                     \/ count(".") > 1
                     \/ \E i \in 2..Len(residual) : At(residual, i) = "-"
    IN  /\ entry = "to_decimal" =>
               /\ pc # "raised"
               /\ (pc = "amount_done" /\ malformed) => amount.value = NoneVal
        /\ entry = "parse_invoice_data" =>
               /\ pc # "raised"
               /\ pc = "parse_done" =>
                      /\ \A k \in {"subtotal", "tax", "total"} : parsed[k] # InvalidOperation
                      /\ \A k \in 1..Len(parsed.items) : parsed.items[k].value # InvalidOperation

\* to_decimal returned None for "1.2.3".
C13_Witness ==
    entry = "to_decimal" /\ pc = "amount_done" /\ text = "1.2.3" /\ amount.value = NoneVal

\* C14: the item loop of parse_invoice_data stops at a summary/footer line
\* only if at least one line has been consumed as an item: whenever the
\* loop breaks before the end of the lines, the item list is not empty.
C14_FooterStopsAfterAnItem ==
    [][(pc = "items_loop" /\ idx < Len(lines) /\ pc' = "parse_return") => items # <<>>]_vars

\* C15: in the item section, once an item has been consumed, a line after
\* the header that matches the summary/footer keywords (also one that holds
\* a header keyword, such as "Amount Due") ends the loop: it is not taken as
\* an item or as a header, and no later line is read.
C15_FooterCheckedFirst ==
    [][(/\ pc = "items_loop" /\ idx < Len(lines)
        /\ item_section_started /\ idx > item_header_idx /\ items # <<>>
        /\ IsFooter(CurrentLine))
       => (pc' = "parse_return" /\ items' = items /\ item_header_idx' = item_header_idx)]_vars

\* C16: when an item is emitted from a line with two or more numeric
\* tokens, the second-to-last token becomes the quantity exactly when it has
\* no decimal point and is an integer between 0 and 1000; otherwise the
\* quantity is 1, and in the OCR pipeline a token with a decimal point
\* becomes the unit price.  The same in both pipelines.
C16_QuantityCandidate ==
    [][LET hasPoint(tok) == \E i \in 1..Len(tok) : At(tok, i) = "."
           qualifies(tok) == /\ ~hasPoint(tok) /\ IsDigits(tok)
                             /\ QtyLow < IntOfDigits(tok) /\ IntOfDigits(tok) < QtyHigh
           quantity(tok) == IF qualifies(tok) THEN IntOfDigits(tok) ELSE 1
       IN  /\ (pc = "items_loop" /\ Len(items') > Len(items)) =>
                  LET toks == NumbersOf(CurrentLine)
                      n == Len(toks)
                  IN  n >= 2 => items'[Len(items')].qty = quantity(toks[n - 1])
           /\ (pc = "ocr_loop" /\ Len(items') > Len(items)) =>
                  LET toks == FindAll(amount_re, lines[idx + 1], FALSE)
                      n == Len(toks)
                      new == items'[Len(items')]
                  IN  n >= 2 =>
                         /\ new.quantity = quantity(toks[n - 1])
                         /\ hasPoint(toks[n - 1]) => new.unit_price = parse_amount(toks[n - 1])]_vars

C18_NameFallbackFirstTenLines ==
    LET ls == NonEmptyLines(Strip(text))
        firstTen == 1..(IF Len(ls) < NameFallbackLines THEN Len(ls) ELSE NameFallbackLines)
    IN  /\ (/\ entry = "parse_invoice_data" /\ pc = "parse_done"
            /\ find(CustomerNamePattern, Strip(text)) = NoneVal
            /\ \A k \in firstTen : ~(IsUpper(ls[k]) /\ Len(ls[k]) > 5))
           => parsed.customer_name = NoneVal
        /\ (/\ pc = "ocr_done" /\ text # ""
            /\ \A k \in 1..Len(KEYWORDS_CUSTOMER_NAME) :
                   OcrLabelledName(ls, KEYWORDS_CUSTOMER_NAME[k]) = NoneVal
            /\ OcrFallbackName(ls) = NoneVal)
           => "customer_name" \notin DOMAIN data

\* C19: in both pipelines the address collected after an address label stops
\* at the first following line that holds a phone or email label: that line
\* and the lines after it are not part of the address.  Stated for texts
\* with one label line, and for the lines that occur nowhere before the
\* phone or email line.
C19_AddressStopsAtContactLine ==
    LET ls == NonEmptyLines(Strip(text))
        contact(l) == \E kw \in {"tel", "phone", "email"} : Contains(Lower(l), kw)
        excluded(i) == {k \in (i + 1)..Len(ls) :
                           /\ \E j \in (i + 1)..k : contact(ls[j])
                           /\ \A m \in i..(k - 1) :
                                  (\A j \in (i + 1)..m : ~contact(ls[j])) => ~Contains(ls[m], ls[k])}
        ocrLabels == {i \in 1..Len(ls) : \E n \in 1..Len(KEYWORDS_CUSTOMER_ADDRESS) :
                                             Contains(Lower(ls[i]), KEYWORDS_CUSTOMER_ADDRESS[n])}
        pdfLabels == {i \in 1..Len(ls) : Contains(Lower(ls[i]), "add")}
    IN  /\ (/\ pc = "ocr_done" /\ text # ""
            /\ "customer_address" \in DOMAIN data
            /\ Cardinality(ocrLabels) = 1)
           => \A i \in ocrLabels : \A k \in excluded(i) : ~Contains(data.customer_address, ls[k])
        /\ (/\ entry = "parse_invoice_data" /\ pc = "parse_done"
            /\ parsed.address # NoneVal
            /\ Cardinality(pdfLabels) = 1)
           => \A i \in pdfLabels : \A k \in excluded(i) : ~Contains(parsed.address, Collapse(ls[k]))

\* C20: every result of extract_from_bytes.  A failure has an empty header
\* and no items, and its raw_text is empty except for 'parsing_failed',
\* where it is the extracted text.  A success has the extracted text, which
\* is not empty, as raw_text and the parser's items as items, and the parser
\* was called once.
C20_ResultShape ==
    pc = "done" =>
        /\ ~result.success =>
               /\ result.header = EmptyDict
               /\ result.items = <<>>
               /\ result.raw_text = (IF result.error = "parsing_failed" THEN text ELSE "")
        /\ result.success =>
               /\ result.raw_text = text
               /\ text # ""
               /\ result.items = parsed.items
               /\ calls.parse_invoice_data = 1

C20_Witness ==
    /\ pc = "done"
    /\ result.success
    /\ result.items # <<>>
    /\ result.raw_text = text

====
